---- MODULE Spec2Model ----
(***************************************************************************)
(* The manual zero-copy block codec of deser_benchmarks:                   *)
(*   src/src/manual_zerocopy.rs     serialize, deserialize, BlockReader,   *)
(*                                  TermIterator, TermReader               *)
(*   src/src/manual_zerocopy_v2.rs  ArchivedFullTerm, BlockReader,         *)
(*                                  TermIterator, deserialize              *)
(*   src/src/manual_zerocopy_v3.rs  deserialize (split_at)                 *)
(*                                                                         *)
(* Scaling.  TLC's integers are 32 bits wide, a u128 is not.  Every        *)
(* integer type keeps its width in BYTES (u32 = 4, u64 = 8, u128 = 16,     *)
(* usize = 4 or 8), and a byte holds ByteBase values instead of 256.  With *)
(* ByteBase = 3 the relations that matter in the code are those of the     *)
(* real widths: on the 8-byte platform 4 + 32*count never overflows for a  *)
(* 4-byte count while a Vec may hold more terms than a 4-byte count can    *)
(* express; on the 4-byte platform it is the other way round.              *)
(***************************************************************************)
EXTENDS Integers, Sequences, FiniteSets, TLC

VARIABLES
    usize_bytes,      \* size_of::<usize>() of the target: 4 or 8
    overflow_checks,  \* the build: TRUE panics on arithmetic overflow, FALSE wraps
    block,            \* the Block the caller holds (its full_terms)
    bytes,            \* the buffer the caller holds
    origin,           \* how the caller made that buffer
    extra,            \* the bytes the caller appended to the encoded buffer
    decoded,          \* the last deserialize call: which module, and what it returned
    reader,           \* the BlockReader::new call: which module, and what it returned
    iter,             \* the TermIterator the caller holds
    cur,              \* what the last next() returned
    seen,             \* the fields read through the accessors, item by item
    matched,          \* the items that passed the mask test, materialized
    yielded,          \* how many items next() has returned in this scan
    query,            \* the query mask of the scan
    aborted,          \* the program has panicked
    readers           \* the callers that each hold a BlockReader on the one buffer

vars == << usize_bytes, overflow_checks, block, bytes, origin, extra, decoded,
           reader, iter, cur, seen, matched, yielded, query, aborted, readers >>

----------------------------------------------------------------------------
(* Bounds of the model *)

ByteBase == 3
MaxTerms == 2
MaxExtra == 1
MaxCut == 2
MaxRaw == 4
MaxIdle == 2

(* Program constants *)

TERM_SIZE == 32
HEADER_SIZE == 4
SIZE_U32 == 4
SIZE_U64 == 8
SIZE_U128 == 16

HEADER_ERR == "Buffer too small for header"
DATA_ERR == "Buffer too small for data"

----------------------------------------------------------------------------
(* Integer types *)

RECURSIVE Pow(_, _)
Pow(b, n) == IF n = 0 THEN 1 ELSE b * Pow(b, n - 1)

Byte == 0 .. (ByteBase - 1)

\* u32::MAX + 1 and u64::MAX + 1
U32_RANGE == Pow(ByteBase, SIZE_U32)
U64_RANGE == Pow(ByteBase, SIZE_U64)

\* usize::MAX + 1 and isize::MAX of a target whose usize has w bytes.  As
\* 2^32 and 2^64 are, usize::MAX + 1 is a multiple of TERM_SIZE (the next
\* one from ByteBase^w), so that a wrapped num_terms * TERM_SIZE is one too
\* and 4 + (num_terms * TERM_SIZE) wraps only where the product does
UsizeRange(w) ==
    ((Pow(ByteBase, w) + TERM_SIZE - 1) \div TERM_SIZE) * TERM_SIZE
IsizeMax(w) == (UsizeRange(w) - 1) \div 2

\* `x as u32`: the low 4 bytes
as_u32(x) == x % U32_RANGE

\* variant: the bytes of an n-byte unsigned integer, most significant first
RECURSIVE to_be_bytes(_, _)
to_be_bytes(v, n) ==
    IF n = 0 THEN << >> ELSE to_be_bytes(v \div ByteBase, n - 1) \o << v % ByteBase >>

\* to_le_bytes of an n-byte unsigned integer: least significant byte first
RECURSIVE to_le_bytes(_, _)
to_le_bytes(v, n) ==
    IF n = 0 THEN << >> ELSE << v % ByteBase >> \o to_le_bytes(v \div ByteBase, n - 1)

\* from_le_bytes of a byte array
RECURSIVE from_le_bytes(_)
from_le_bytes(s) ==
    IF s = << >> THEN 0 ELSE Head(s) + ByteBase * from_le_bytes(Tail(s))

\* a * b and a + b on usize: the value, or a panic in a build with overflow checks
usize_mul(a, b, w, checks) ==
    IF a * b < UsizeRange(w) THEN [panic |-> FALSE, v |-> a * b]
    ELSE [panic |-> checks, v |-> (a * b) % UsizeRange(w)]

usize_add(a, b, w, checks) ==
    IF a + b < UsizeRange(w) THEN [panic |-> FALSE, v |-> a + b]
    ELSE [panic |-> checks, v |-> (a + b) % UsizeRange(w)]

\* a & b on unsigned integers
RECURSIVE BitAnd(_, _)
BitAnd(a, b) ==
    IF a = 0 \/ b = 0 THEN 0
    ELSE (a % 2) * (b % 2) + 2 * BitAnd(a \div 2, b \div 2)

\* bytes[lo..hi] is in bounds (the slice index does not panic)
InBounds(buf, lo, hi) == lo <= hi /\ hi <= Len(buf)

\* bytes[lo..hi], 0-based and half-open as in the source
Slice(buf, lo, hi) == SubSeq(buf, lo + 1, hi)

----------------------------------------------------------------------------
(* Results *)

Ok(terms) == [tag |-> "Ok", err |-> "", full_terms |-> terms]
Err(msg) == [tag |-> "Err", err |-> msg, full_terms |-> << >>]
Panic == [tag |-> "Panic", err |-> "", full_terms |-> << >>]

FullTerm(d, m, f) == [doc_id |-> d, field_mask |-> m, frequency |-> f]

\* Vec::with_capacity(n) of 32-byte elements: panics past isize::MAX bytes
CapacityOk(n, w) == n * TERM_SIZE <= IsizeMax(w)

----------------------------------------------------------------------------
(* manual_zerocopy.rs: serialize *)

\* variant: a term written without its frequency
serialize_term_short(term) ==
    to_le_bytes(term.doc_id, SIZE_U64) \o to_le_bytes(term.field_mask, SIZE_U128)

serialize_term(term) ==
    to_le_bytes(term.doc_id, SIZE_U64)
        \o to_le_bytes(term.field_mask, SIZE_U128)
        \o to_le_bytes(term.frequency, SIZE_U64)

\* the loop of serialize: the bytes of every term, appended in order (the
\* concatenation is evaluated by halves, which keeps it shallow on long blocks)
RECURSIVE serialize_terms(_)
serialize_terms(terms) ==
    IF terms = << >> THEN << >>
    ELSE IF Len(terms) = 1 THEN serialize_term(terms[1])
    ELSE LET h == Len(terms) \div 2
         IN  serialize_terms(SubSeq(terms, 1, h))
                 \o serialize_terms(SubSeq(terms, h + 1, Len(terms)))

serialize(b) ==
    LET num_terms == Len(b)
    IN  to_le_bytes(as_u32(num_terms), SIZE_U32) \o serialize_terms(b)

----------------------------------------------------------------------------
(* manual_zerocopy.rs: deserialize *)

\* the header count, `u32::from_le_bytes([bytes[0], .., bytes[3]]) as usize`
\* (indexing bytes[3] panics on a shorter buffer)
read_num_terms(buf) ==
    IF InBounds(buf, 0, HEADER_SIZE)
    THEN [panic |-> FALSE, v |-> from_le_bytes(Slice(buf, 0, HEADER_SIZE))]
    ELSE [panic |-> TRUE, v |-> 0]

\* `4 + (num_terms * TERM_SIZE)` on usize
expected_size(num_terms, w, checks) ==
    LET m == usize_mul(num_terms, TERM_SIZE, w, checks)
        e == usize_add(HEADER_SIZE, m.v, w, checks)
    IN  [panic |-> m.panic \/ e.panic, v |-> e.v]

\* the loop of deserialize: n terms from offset, every slice index checked
RECURSIVE deserialize_terms(_, _, _, _)
deserialize_terms(buf, offset, n, acc) ==
    IF n = 0 THEN Ok(acc)
    ELSE IF ~InBounds(buf, offset, offset + 8) THEN Panic
    ELSE IF ~InBounds(buf, offset + 8, offset + 24) THEN Panic
    ELSE IF ~InBounds(buf, offset + 24, offset + 32) THEN Panic
    ELSE LET doc_id == from_le_bytes(Slice(buf, offset, offset + 8))
             field_mask == from_le_bytes(Slice(buf, offset + 8, offset + 24))
             frequency == from_le_bytes(Slice(buf, offset + 24, offset + 32))
         IN  deserialize_terms(buf, offset + 32, n - 1,
                               Append(acc, FullTerm(doc_id, field_mask, frequency)))

\* variant: deserialize reading the count before it checks the length
deserialize_read_first(buf, w, checks) ==
    LET num_terms == read_num_terms(buf)
        expected == expected_size(num_terms.v, w, checks)
    IN  IF num_terms.panic \/ expected.panic THEN Panic
        ELSE IF Len(buf) < HEADER_SIZE THEN Err(HEADER_ERR)
        ELSE IF Len(buf) < expected.v THEN Err(DATA_ERR)
        ELSE IF ~CapacityOk(num_terms.v, w) THEN Panic
        ELSE deserialize_terms(buf, HEADER_SIZE, num_terms.v, << >>)

deserialize(buf, w, checks) ==
    IF Len(buf) < HEADER_SIZE THEN Err(HEADER_ERR)
    ELSE LET num_terms == read_num_terms(buf)
             expected == expected_size(num_terms.v, w, checks)
         IN  IF num_terms.panic \/ expected.panic THEN Panic
             ELSE IF Len(buf) < expected.v THEN Err(DATA_ERR)
             ELSE IF ~CapacityOk(num_terms.v, w) THEN Panic
             ELSE deserialize_terms(buf, HEADER_SIZE, num_terms.v, << >>)

----------------------------------------------------------------------------
(* manual_zerocopy.rs: BlockReader, TermIterator, TermReader *)

ReaderOk(n) == [tag |-> "Ok", err |-> "", num_terms |-> n]
ReaderErr(msg) == [tag |-> "Err", err |-> msg, num_terms |-> 0]
ReaderPanic == [tag |-> "Panic", err |-> "", num_terms |-> 0]

BlockReader_new(buf, w, checks) ==
    IF Len(buf) < HEADER_SIZE THEN ReaderErr(HEADER_ERR)
    ELSE LET num_terms == read_num_terms(buf)
             expected == expected_size(num_terms.v, w, checks)
         IN  IF num_terms.panic \/ expected.panic THEN ReaderPanic
             ELSE IF Len(buf) < expected.v THEN ReaderErr(DATA_ERR)
             ELSE ReaderOk(num_terms.v)

BlockReader_len(r) == r.num_terms

\* variant: iter() with one item more than the reader holds
BlockReader_iter_one_more(r) == [offset |-> HEADER_SIZE, remaining |-> r.num_terms + 1]

BlockReader_iter(r) == [offset |-> HEADER_SIZE, remaining |-> r.num_terms]

\* an item of the iteration: v1 keeps the offset, v2 the three byte arrays
NoBytes == << >>
Item(offset, d, m, f) ==
    [tag |-> "Some", offset |-> offset, doc_id_bytes |-> d,
     field_mask_bytes |-> m, frequency_bytes |-> f]
None == [tag |-> "None", offset |-> 0, doc_id_bytes |-> NoBytes,
         field_mask_bytes |-> NoBytes, frequency_bytes |-> NoBytes]

\* variant: next() that still adds TERM_SIZE to offset when remaining is 0
TermIterator_next_moving(it, buf, w, checks) ==
    IF it.remaining = 0
    THEN [panic |-> FALSE, item |-> None,
          it |-> [offset |-> it.offset + TERM_SIZE, remaining |-> it.remaining]]
    ELSE LET term == Item(it.offset, NoBytes, NoBytes, NoBytes)
             off == usize_add(it.offset, TERM_SIZE, w, checks)
         IN  IF off.panic THEN [panic |-> TRUE, item |-> None, it |-> it]
             ELSE [panic |-> FALSE, item |-> term,
                   it |-> [offset |-> off.v, remaining |-> it.remaining - 1]]

\* next(): what it returns, the iterator after it, and whether it panicked
TermIterator_next(it, buf, w, checks) ==
    IF it.remaining = 0 THEN [panic |-> FALSE, item |-> None, it |-> it]
    ELSE LET term == Item(it.offset, NoBytes, NoBytes, NoBytes)
             off == usize_add(it.offset, TERM_SIZE, w, checks)
         IN  IF off.panic THEN [panic |-> TRUE, item |-> None, it |-> it]
             ELSE [panic |-> FALSE, item |-> term,
                   it |-> [offset |-> off.v, remaining |-> it.remaining - 1]]

TermIterator_size_hint(it) == << it.remaining, it.remaining >>

\* self.bytes[self.offset + lo .. self.offset + hi] read as an integer
read_field(buf, offset, lo, hi, w, checks) ==
    LET a == usize_add(offset, lo, w, checks)
        b == usize_add(offset, hi, w, checks)
    IN  IF a.panic \/ b.panic \/ ~InBounds(buf, a.v, b.v)
        THEN [panic |-> TRUE, v |-> 0]
        ELSE [panic |-> FALSE, v |-> from_le_bytes(Slice(buf, a.v, b.v))]

\* variant: field_mask() reading 8 bytes instead of 16
TermReader_field_mask_short(buf, term, w, checks) ==
    read_field(buf, term.offset, 8, 16, w, checks)

TermReader_doc_id(buf, term, w, checks) == read_field(buf, term.offset, 0, 8, w, checks)
TermReader_field_mask(buf, term, w, checks) == read_field(buf, term.offset, 8, 24, w, checks)
TermReader_frequency(buf, term, w, checks) == read_field(buf, term.offset, 24, 32, w, checks)

\* variant: deserialize() with doc_id and frequency exchanged
TermReader_deserialize_swapped(buf, term, w, checks) ==
    LET d == TermReader_doc_id(buf, term, w, checks)
        m == TermReader_field_mask(buf, term, w, checks)
        f == TermReader_frequency(buf, term, w, checks)
    IN  [panic |-> d.panic \/ m.panic \/ f.panic, v |-> FullTerm(f.v, m.v, d.v)]

TermReader_deserialize(buf, term, w, checks) ==
    LET d == TermReader_doc_id(buf, term, w, checks)
        m == TermReader_field_mask(buf, term, w, checks)
        f == TermReader_frequency(buf, term, w, checks)
    IN  [panic |-> d.panic \/ m.panic \/ f.panic, v |-> FullTerm(d.v, m.v, f.v)]

----------------------------------------------------------------------------
(* manual_zerocopy_v2.rs: ArchivedFullTerm, BlockReader, TermIterator *)

\* from_bytes_unchecked: the three slices are index-checked, their conversion
\* to arrays is not (and cannot fail: each slice has the array's length)
ArchivedFullTerm_from_bytes_unchecked(buf, offset, w, checks) ==
    LET a == usize_add(offset, 8, w, checks)
        b == usize_add(offset, 24, w, checks)
        c == usize_add(offset, 32, w, checks)
    IN  IF a.panic \/ ~InBounds(buf, offset, a.v) THEN [panic |-> TRUE, item |-> None]
        ELSE IF b.panic \/ ~InBounds(buf, a.v, b.v) THEN [panic |-> TRUE, item |-> None]
        ELSE IF c.panic \/ ~InBounds(buf, b.v, c.v) THEN [panic |-> TRUE, item |-> None]
        ELSE [panic |-> FALSE,
              item |-> Item(offset, Slice(buf, offset, a.v), Slice(buf, a.v, b.v),
                            Slice(buf, b.v, c.v))]

ArchivedFullTerm_doc_id(term) == from_le_bytes(term.doc_id_bytes)
ArchivedFullTerm_field_mask(term) == from_le_bytes(term.field_mask_bytes)
ArchivedFullTerm_frequency(term) == from_le_bytes(term.frequency_bytes)

ArchivedFullTerm_deserialize(term) ==
    FullTerm(ArchivedFullTerm_doc_id(term), ArchivedFullTerm_field_mask(term),
             ArchivedFullTerm_frequency(term))

\* serialize of manual_zerocopy_v2.rs
v2_serialize(b) ==
    LET num_terms == Len(b)
    IN  to_le_bytes(as_u32(num_terms), SIZE_U32) \o serialize_terms(b)

v2_BlockReader_new(buf, w, checks) ==
    IF Len(buf) < HEADER_SIZE THEN ReaderErr(HEADER_ERR)
    ELSE LET num_terms == read_num_terms(buf)
             expected == expected_size(num_terms.v, w, checks)
         IN  IF num_terms.panic \/ expected.panic THEN ReaderPanic
             ELSE IF Len(buf) < expected.v THEN ReaderErr(DATA_ERR)
             ELSE ReaderOk(num_terms.v)

v2_BlockReader_iter(r) == [offset |-> HEADER_SIZE, remaining |-> r.num_terms]

v2_TermIterator_next(it, buf, w, checks) ==
    IF it.remaining = 0 THEN [panic |-> FALSE, item |-> None, it |-> it]
    ELSE LET term == ArchivedFullTerm_from_bytes_unchecked(buf, it.offset, w, checks)
             off == usize_add(it.offset, TERM_SIZE, w, checks)
         IN  IF term.panic \/ off.panic THEN [panic |-> TRUE, item |-> None, it |-> it]
             ELSE [panic |-> FALSE, item |-> term.item,
                   it |-> [offset |-> off.v, remaining |-> it.remaining - 1]]

v2_TermIterator_size_hint(it) == << it.remaining, it.remaining >>

\* the for loop of v2 deserialize: next() until None, each item deserialized
RECURSIVE v2_collect(_, _, _, _, _)
v2_collect(it, buf, w, checks, acc) ==
    LET n == v2_TermIterator_next(it, buf, w, checks)
    IN  IF n.panic THEN Panic
        ELSE IF n.item.tag = "None" THEN Ok(acc)
        ELSE v2_collect(n.it, buf, w, checks,
                        Append(acc, ArchivedFullTerm_deserialize(n.item)))

v2_deserialize(buf, w, checks) ==
    LET r == v2_BlockReader_new(buf, w, checks)
    IN  IF r.tag = "Err" THEN Err(r.err)
        ELSE IF r.tag = "Panic" THEN Panic
        ELSE IF ~CapacityOk(r.num_terms, w) THEN Panic
        ELSE v2_collect(v2_BlockReader_iter(r), buf, w, checks, << >>)

----------------------------------------------------------------------------
(* manual_zerocopy_v3.rs: deserialize *)

\* serialize of manual_zerocopy_v3.rs
v3_serialize(b) ==
    LET num_terms == Len(b)
    IN  to_le_bytes(as_u32(num_terms), SIZE_U32) \o serialize_terms(b)

\* split_at(mid): panics when mid > len
CanSplit(buf, mid) == mid <= Len(buf)
SplitHead(buf, mid) == SubSeq(buf, 1, mid)
SplitRest(buf, mid) == SubSeq(buf, mid + 1, Len(buf))

RECURSIVE v3_deserialize_terms(_, _, _)
v3_deserialize_terms(remaining, n, acc) ==
    IF n = 0 THEN Ok(acc)
    ELSE IF ~CanSplit(remaining, SIZE_U64) THEN Panic
    ELSE LET doc_id == from_le_bytes(SplitHead(remaining, SIZE_U64))
             rest1 == SplitRest(remaining, SIZE_U64)
         IN  IF ~CanSplit(rest1, SIZE_U128) THEN Panic
             ELSE LET field_mask == from_le_bytes(SplitHead(rest1, SIZE_U128))
                      rest2 == SplitRest(rest1, SIZE_U128)
                  IN  IF ~CanSplit(rest2, SIZE_U64) THEN Panic
                      ELSE LET frequency == from_le_bytes(SplitHead(rest2, SIZE_U64))
                               rest3 == SplitRest(rest2, SIZE_U64)
                           IN  v3_deserialize_terms(rest3, n - 1,
                                   Append(acc, FullTerm(doc_id, field_mask, frequency)))

\* variant: the size check made against the whole buffer, header included
v3_deserialize_whole(buf, w, checks) ==
    IF Len(buf) < HEADER_SIZE THEN Err(HEADER_ERR)
    ELSE IF ~CanSplit(buf, SIZE_U32) THEN Panic
    ELSE LET num_terms == from_le_bytes(SplitHead(buf, SIZE_U32))
             remaining == SplitRest(buf, SIZE_U32)
             expected == usize_mul(num_terms, TERM_SIZE, w, checks)
         IN  IF expected.panic THEN Panic
             ELSE IF Len(buf) < expected.v THEN Err(DATA_ERR)
             ELSE IF ~CapacityOk(num_terms, w) THEN Panic
             ELSE v3_deserialize_terms(remaining, num_terms, << >>)

v3_deserialize(buf, w, checks) ==
    IF Len(buf) < HEADER_SIZE THEN Err(HEADER_ERR)
    ELSE IF ~CanSplit(buf, SIZE_U32) THEN Panic
    ELSE LET num_terms == from_le_bytes(SplitHead(buf, SIZE_U32))
             remaining == SplitRest(buf, SIZE_U32)
             expected == usize_mul(num_terms, TERM_SIZE, w, checks)
         IN  IF expected.panic THEN Panic
             ELSE IF Len(remaining) < expected.v THEN Err(DATA_ERR)
             ELSE IF ~CapacityOk(num_terms, w) THEN Panic
             ELSE v3_deserialize_terms(remaining, num_terms, << >>)

----------------------------------------------------------------------------
(* benches/codec.rs: the filtered read *)

\* `field_mask & query_mask != 0`
Matches(field_mask, query_mask) == BitAnd(field_mask, query_mask) # 0

\* the eager filter: the terms of a decoded block that pass the test, in order
RECURSIVE FilterTerms(_, _)
FilterTerms(terms, query_mask) ==
    IF terms = << >> THEN << >>
    ELSE IF Matches(Head(terms).field_mask, query_mask)
         THEN << Head(terms) >> \o FilterTerms(Tail(terms), query_mask)
         ELSE FilterTerms(Tail(terms), query_mask)

----------------------------------------------------------------------------
(* The inputs *)

\* doc_id 100 and frequency 7 as in test_zero_copy_reader, with a mask of several
\* bytes, and a term with the largest doc_id
SampleTerms == { FullTerm(100, 16711935, 7), FullTerm(U64_RANGE - 1, 6, 42) }

QueryMasks == { 1, 2 }

SmallBlocks == UNION { [1 .. n -> SampleTerms] : n \in 0 .. MaxTerms }

\* a block of n terms, for the n a 4-byte count cannot express
LongBlock(n) == [i \in 1 .. n |-> FullTerm(i % U64_RANGE, i, 1 + (i % 9))]
LongBlocks == { LongBlock(U32_RANGE), LongBlock(U32_RANGE + 1) }

\* a Vec of n bytes exists on the target (at most isize::MAX bytes)
FitsMemory(n, w) == n <= IsizeMax(w)

Blocks(w) ==
    { b \in SmallBlocks \cup LongBlocks : FitsMemory(HEADER_SIZE + Len(b) * TERM_SIZE, w) }

\* the caller cuts, extends and rewrites buffers of up to MaxTerms + 1 terms
\* in every way, and longer ones by a few bytes at their end
IsShort(buf) == Len(buf) <= HEADER_SIZE + (MaxTerms + 1) * TERM_SIZE

\* the lengths the caller cuts a buffer to
CutPoints(buf) ==
    IF IsShort(buf) THEN 0 .. (Len(buf) - 1)
    ELSE (Len(buf) - MaxCut) .. (Len(buf) - 1)

\* the bytes the caller appends: up to MaxExtra copies of a byte, or the 32
\* bytes of a term that no serialize wrote
RawTerm == [i \in 1 .. TERM_SIZE |-> 1]
ExtraSamples(buf) ==
    { [i \in 1 .. n |-> v] : n \in 1 .. MaxExtra, v \in Byte }
        \cup (IF IsShort(buf) THEN { RawTerm } ELSE { })

\* the buffers the caller makes byte by byte: every content up to MaxRaw bytes
RawSamples == UNION { [1 .. n -> Byte] : n \in 0 .. MaxRaw }

\* the counts the caller writes into the header: small ones, u32::MAX, and the
\* first count whose 32*count does not fit usize
CountSamples(w) ==
    { c \in (0 .. (MaxTerms + 1))
              \cup { U32_RANGE - 1, (UsizeRange(w) + TERM_SIZE - 1) \div TERM_SIZE } :
        c < U32_RANGE }

\* of those, the counts whose 32*count does not fit usize
WrapCounts(w) == { c \in CountSamples(w) : c * TERM_SIZE >= UsizeRange(w) }

NoResult == [tag |-> "-", err |-> "", full_terms |-> << >>]
NoDecoded == [ver |-> 0, res |-> NoResult]
NoReader == [ver |-> 0, tag |-> "-", err |-> "", num_terms |-> 0]
NoIter == [live |-> FALSE, offset |-> 0, remaining |-> 0]
Unset == [tag |-> "-", offset |-> 0, doc_id_bytes |-> NoBytes,
          field_mask_bytes |-> NoBytes, frequency_bytes |-> NoBytes]

\* the callers that share the buffer, and one of them before its BlockReader::new
Callers == { 1, 2 }
NoCaller ==
    [ver |-> 0, tag |-> "-", err |-> "", num_terms |-> 0, declared |-> 0,
     iter |-> NoIter, cur |-> Unset, restarted |-> FALSE, idle |-> 0, log |-> << >>,
     panicked |-> FALSE]

----------------------------------------------------------------------------
(* The state machine: a caller that encodes a block, may cut the buffer,    *)
(* append to it or rewrite its count, and then decodes and scans it.        *)

Init ==
    /\ usize_bytes \in { 4, 8 }
    /\ overflow_checks \in BOOLEAN
    /\ block \in Blocks(usize_bytes)
    /\ bytes = << >>
    /\ origin = "none"
    /\ extra = << >>
    /\ decoded = NoDecoded
    /\ reader = NoReader
    /\ iter = NoIter
    /\ cur = Unset
    /\ seen = << >>
    /\ matched = << >>
    /\ yielded = 0
    /\ query = 0
    /\ aborted = FALSE
    /\ readers = [t \in Callers |-> NoCaller]

\* the buffer is not borrowed and nothing was decoded from it yet
Untouched ==
    /\ decoded.ver = 0 /\ reader.ver = 0 /\ ~aborted
    /\ \A t \in Callers : readers[t].ver = 0

Serialize ==
    /\ origin = "none"
    /\ bytes' = serialize(block)
    /\ origin' = "encoded"
    /\ UNCHANGED << readers, usize_bytes, overflow_checks, block, extra, decoded, reader,
                    iter, cur, seen, matched, yielded, query, aborted >>

Raw(s) ==
    /\ origin = "none" /\ block = << >>
    /\ bytes' = s
    /\ origin' = "raw"
    /\ UNCHANGED << readers, usize_bytes, overflow_checks, block, extra, decoded, reader,
                    iter, cur, seen, matched, yielded, query, aborted >>

Truncate(k) ==
    /\ origin = "encoded" /\ Untouched
    /\ bytes' = SubSeq(bytes, 1, k)
    /\ origin' = "truncated"
    /\ UNCHANGED << readers, usize_bytes, overflow_checks, block, extra, decoded, reader,
                    iter, cur, seen, matched, yielded, query, aborted >>

Extend(s) ==
    /\ origin = "encoded" /\ Untouched
    /\ FitsMemory(Len(bytes) + Len(s), usize_bytes)
    /\ bytes' = bytes \o s
    /\ extra' = s
    /\ origin' = "extended"
    /\ UNCHANGED << readers, usize_bytes, overflow_checks, block, decoded, reader,
                    iter, cur, seen, matched, yielded, query, aborted >>

SetCount(c) ==
    /\ origin = "encoded" \/ (origin = "extended" /\ extra = RawTerm)
    /\ Untouched
    /\ IsShort(bytes)
    /\ c # read_num_terms(bytes).v
    /\ bytes' = to_le_bytes(c, SIZE_U32) \o SubSeq(bytes, HEADER_SIZE + 1, Len(bytes))
    /\ origin' = "recounted"
    /\ UNCHANGED << readers, usize_bytes, overflow_checks, block, extra, decoded, reader,
                    iter, cur, seen, matched, yielded, query, aborted >>

\* a deserialize call of module ver returned res (next to a reader, the caller
\* decodes with manual_zerocopy::deserialize)
Decoded(ver, res) ==
    /\ origin # "none" /\ ~aborted
    /\ decoded.ver # ver
    /\ ver = 1 \/ reader.ver = 0
    /\ decoded' = [ver |-> ver, res |-> res]
    /\ aborted' = (res.tag = "Panic")
    /\ UNCHANGED << readers, usize_bytes, overflow_checks, block, bytes, origin, extra, reader,
                    iter, cur, seen, matched, yielded, query >>

Deserialize == Decoded(1, deserialize(bytes, usize_bytes, overflow_checks))
DeserializeV2 == Decoded(2, v2_deserialize(bytes, usize_bytes, overflow_checks))
DeserializeV3 == Decoded(3, v3_deserialize(bytes, usize_bytes, overflow_checks))

\* a BlockReader::new call of module ver returned res
Opened(ver, res) ==
    /\ origin # "none" /\ ~aborted
    /\ reader.ver = 0
    /\ decoded.ver \in { 0, 1 }
    /\ reader' = [ver |-> ver, tag |-> res.tag, err |-> res.err,
                  num_terms |-> res.num_terms]
    /\ aborted' = (res.tag = "Panic")
    /\ UNCHANGED << readers, usize_bytes, overflow_checks, block, bytes, origin, extra, decoded,
                    iter, cur, seen, matched, yielded, query >>

ReaderNew == Opened(1, BlockReader_new(bytes, usize_bytes, overflow_checks))
ReaderNewV2 == Opened(2, v2_BlockReader_new(bytes, usize_bytes, overflow_checks))

\* reader.iter(): a scan with query mask m starts
Iter(m) ==
    /\ reader.tag = "Ok" /\ ~aborted
    /\ iter.live => cur.tag # "-"
    /\ LET it == IF reader.ver = 1 THEN BlockReader_iter(reader) ELSE v2_BlockReader_iter(reader)
       IN  iter' = [live |-> TRUE, offset |-> it.offset, remaining |-> it.remaining]
    /\ cur' = Unset
    /\ seen' = << >>
    /\ matched' = << >>
    /\ yielded' = 0
    /\ query' = m
    /\ UNCHANGED << readers, usize_bytes, overflow_checks, block, bytes, origin, extra, decoded,
                    reader, aborted >>

\* iter.next()
IterNext ==
    /\ iter.live /\ ~aborted
    /\ LET it == [offset |-> iter.offset, remaining |-> iter.remaining]
           n == IF reader.ver = 1
                THEN TermIterator_next(it, bytes, usize_bytes, overflow_checks)
                ELSE v2_TermIterator_next(it, bytes, usize_bytes, overflow_checks)
       IN  /\ aborted' = n.panic
           /\ cur' = n.item
           /\ iter' = [live |-> TRUE, offset |-> n.it.offset, remaining |-> n.it.remaining]
           /\ yielded' = IF n.item.tag = "Some" THEN yielded + 1 ELSE yielded
    /\ UNCHANGED << readers, usize_bytes, overflow_checks, block, bytes, origin, extra, decoded,
                    reader, seen, matched, query >>

\* the three accessors and deserialize() of an item, for either reader
ItemFields(item) ==
    IF reader.ver = 1
    THEN LET d == TermReader_doc_id(bytes, item, usize_bytes, overflow_checks)
             m == TermReader_field_mask(bytes, item, usize_bytes, overflow_checks)
             f == TermReader_frequency(bytes, item, usize_bytes, overflow_checks)
         IN  [panic |-> d.panic \/ m.panic \/ f.panic,
              doc_id |-> d.v, field_mask |-> m.v, frequency |-> f.v]
    ELSE [panic |-> FALSE,
          doc_id |-> ArchivedFullTerm_doc_id(item),
          field_mask |-> ArchivedFullTerm_field_mask(item),
          frequency |-> ArchivedFullTerm_frequency(item)]

ItemDeserialize(item) ==
    IF reader.ver = 1
    THEN TermReader_deserialize(bytes, item, usize_bytes, overflow_checks)
    ELSE [panic |-> FALSE, v |-> ArchivedFullTerm_deserialize(item)]

\* the body of the scan loop on the item next() returned: read the three fields,
\* and materialize the item when its mask meets the query mask
Visit ==
    /\ cur.tag = "Some" /\ ~aborted
    /\ IF seen = << >> THEN TRUE ELSE seen[Len(seen)].idx < yielded
    /\ LET v == ItemFields(cur)
           hit == ~v.panic /\ Matches(v.field_mask, query)
           t == ItemDeserialize(cur)
       IN  /\ aborted' = (v.panic \/ (hit /\ t.panic))
           /\ seen' = IF v.panic THEN seen
                      ELSE Append(seen, [idx |-> yielded, doc_id |-> v.doc_id,
                                         field_mask |-> v.field_mask,
                                         frequency |-> v.frequency])
           /\ matched' = IF hit /\ ~t.panic THEN Append(matched, t.v) ELSE matched
    /\ UNCHANGED << readers, usize_bytes, overflow_checks, block, bytes, origin, extra, decoded,
                    reader, iter, cur, yielded, query >>

Next ==
    \/ Serialize
    \/ \E s \in RawSamples : Raw(s)
    \/ \E k \in CutPoints(bytes) : Truncate(k)
    \/ \E s \in ExtraSamples(bytes) : Extend(s)
    \/ \E c \in CountSamples(usize_bytes) : SetCount(c)
    \/ Deserialize
    \/ DeserializeV2
    \/ DeserializeV3
    \/ ReaderNew
    \/ ReaderNewV2
    \/ \E m \in QueryMasks : Iter(m)
    \/ IterNext
    \/ Visit

Spec == Init /\ [][Next]_vars

----------------------------------------------------------------------------
(* Several callers on one buffer.  BlockReader and TermIterator hold a     *)
(* shared borrow of the buffer (`bytes: &'a [u8]`) and their own num_terms, *)
(* offset and remaining; each caller opens a reader of either module,      *)
(* starts a traversal (and may start another), and in a traversal calls    *)
(* next(), then the three accessors and deserialize() of the item, also    *)
(* next() again after None.  The steps of the callers interleave freely.   *)

\* what a caller has seen since its last iter(): the result of a next(), the
\* values read from an item, or the panic that ended it
NoRead == [doc_id |-> 0, field_mask |-> 0, frequency |-> 0, term |-> FullTerm(0, 0, 0)]
NextObs(item) == [op |-> "next", item |-> item, read |-> NoRead]
ReadObs(item, r) ==
    [op |-> "read", item |-> item,
     read |-> [doc_id |-> r.doc_id, field_mask |-> r.field_mask,
               frequency |-> r.frequency, term |-> r.term]]
PanicObs == [op |-> "panic", item |-> Unset, read |-> NoRead]

\* BlockReader::new, iter() and next() of module ver
NewOf(ver) ==
    IF ver = 1 THEN BlockReader_new(bytes, usize_bytes, overflow_checks)
    ELSE v2_BlockReader_new(bytes, usize_bytes, overflow_checks)

IterOf(ver, r) == IF ver = 1 THEN BlockReader_iter(r) ELSE v2_BlockReader_iter(r)

NextOf(ver, it) ==
    IF ver = 1 THEN TermIterator_next(it, bytes, usize_bytes, overflow_checks)
    ELSE v2_TermIterator_next(it, bytes, usize_bytes, overflow_checks)

\* doc_id(), field_mask(), frequency() and deserialize() of an item of module ver
ReadItem(ver, item) ==
    IF ver = 1
    THEN LET d == TermReader_doc_id(bytes, item, usize_bytes, overflow_checks)
             m == TermReader_field_mask(bytes, item, usize_bytes, overflow_checks)
             f == TermReader_frequency(bytes, item, usize_bytes, overflow_checks)
             t == TermReader_deserialize(bytes, item, usize_bytes, overflow_checks)
         IN  [panic |-> d.panic \/ m.panic \/ f.panic \/ t.panic,
              doc_id |-> d.v, field_mask |-> m.v, frequency |-> f.v, term |-> t.v]
    ELSE [panic |-> FALSE,
          doc_id |-> ArchivedFullTerm_doc_id(item),
          field_mask |-> ArchivedFullTerm_field_mask(item),
          frequency |-> ArchivedFullTerm_frequency(item),
          term |-> ArchivedFullTerm_deserialize(item)]

\* variant: every caller steps the iterator of caller 1
IteratorOfFirst(t) ==
    [offset |-> readers[1].iter.offset, remaining |-> readers[1].iter.remaining]

\* the TermIterator caller t holds (`self` of its next())
IteratorOf(t) ==
    [offset |-> readers[t].iter.offset, remaining |-> readers[t].iter.remaining]

\* caller t: BlockReader::new(&bytes) of module ver
CallerNew(t, ver) ==
    /\ origin # "none"
    /\ readers[t].ver = 0
    /\ LET res == NewOf(ver)
       IN  readers' = [readers EXCEPT ![t] =
                [@ EXCEPT !.ver = ver, !.tag = res.tag, !.err = res.err,
                          !.num_terms = res.num_terms, !.declared = res.num_terms,
                          !.panicked = (res.tag = "Panic")]]
    /\ UNCHANGED << usize_bytes, overflow_checks, block, bytes, origin, extra, decoded,
                    reader, iter, cur, seen, matched, yielded, query, aborted >>

\* caller t: reader.iter(), on a fresh reader or in the middle or at the end of
\* the traversal before
CallerIter(t) ==
    /\ readers[t].tag = "Ok" /\ ~readers[t].panicked
    /\ readers[t].iter.live => readers[t].log # << >>
    /\ LET it == IterOf(readers[t].ver, readers[t])
       IN  readers' = [readers EXCEPT ![t] =
                [@ EXCEPT !.iter = [live |-> TRUE, offset |-> it.offset,
                                    remaining |-> it.remaining],
                          !.cur = Unset, !.restarted = (@ \/ readers[t].iter.live),
                          !.idle = 0, !.log = << >>]]
    /\ UNCHANGED << usize_bytes, overflow_checks, block, bytes, origin, extra, decoded,
                    reader, iter, cur, seen, matched, yielded, query, aborted >>

\* caller t: iter.next(), once the item before was read
CallerNext(t) ==
    /\ readers[t].iter.live /\ ~readers[t].panicked
    /\ readers[t].cur.tag = "Some" => readers[t].log[Len(readers[t].log)].op = "read"
    /\ readers[t].cur.tag = "None" => readers[t].idle < MaxIdle
    /\ LET n == NextOf(readers[t].ver, IteratorOf(t))
       IN  readers' = [readers EXCEPT ![t] =
                IF n.panic
                THEN [@ EXCEPT !.panicked = TRUE, !.log = Append(@, PanicObs)]
                ELSE [@ EXCEPT !.cur = n.item,
                               !.iter = [live |-> TRUE, offset |-> n.it.offset,
                                         remaining |-> n.it.remaining],
                               !.idle = IF readers[t].cur.tag = "None" THEN @ + 1 ELSE @,
                               !.log = Append(@, NextObs(n.item))]]
    /\ UNCHANGED << usize_bytes, overflow_checks, block, bytes, origin, extra, decoded,
                    reader, iter, cur, seen, matched, yielded, query, aborted >>

\* caller t: the three accessors and deserialize() of the item next() returned
CallerRead(t) ==
    /\ readers[t].cur.tag = "Some" /\ ~readers[t].panicked
    /\ readers[t].log[Len(readers[t].log)].op = "next"
    /\ LET r == ReadItem(readers[t].ver, readers[t].cur)
       IN  readers' = [readers EXCEPT ![t] =
                IF r.panic
                THEN [@ EXCEPT !.panicked = TRUE, !.log = Append(@, PanicObs)]
                ELSE [@ EXCEPT !.log = Append(@, ReadObs(readers[t].cur, r))]]
    /\ UNCHANGED << usize_bytes, overflow_checks, block, bytes, origin, extra, decoded,
                    reader, iter, cur, seen, matched, yielded, query, aborted >>

SharedNext ==
    \/ Serialize
    \/ \E c \in WrapCounts(usize_bytes) : SetCount(c)
    \/ \E t \in Callers : CallerNew(t, 1)
    \/ \E t \in Callers : CallerNew(t, 2)
    \/ \E t \in Callers : CallerIter(t)
    \/ \E t \in Callers : CallerNext(t)
    \/ \E t \in Callers : CallerRead(t)

SharedSpec == Init /\ [][SharedNext]_vars

\* the first k things a caller sees in a traversal of module ver from iterator
\* it when no other caller exists
RECURSIVE AloneFrom(_, _, _)
AloneFrom(ver, it, k) ==
    IF k = 0 THEN << >>
    ELSE LET n == NextOf(ver, it)
         IN  IF n.panic THEN << PanicObs >>
             ELSE IF n.item.tag = "None"
                  THEN << NextObs(n.item) >> \o AloneFrom(ver, n.it, k - 1)
             ELSE IF k = 1 THEN << NextObs(n.item) >>
             ELSE LET r == ReadItem(ver, n.item)
                  IN  IF r.panic THEN << NextObs(n.item), PanicObs >>
                      ELSE << NextObs(n.item), ReadObs(n.item, r) >>
                               \o AloneFrom(ver, n.it, k - 2)

----------------------------------------------------------------------------
(* Vocabulary of the claims *)

\* byte j (from 0) of the little-endian encoding of v
LEByte(v, j) == (v \div Pow(ByteBase, j)) % ByteBase

\* the little-endian u32 in the first 4 bytes of a buffer of at least 4 bytes
HeaderCount(buf) ==
    buf[1] + buf[2] * ByteBase + buf[3] * ByteBase * ByteBase
        + buf[4] * ByteBase * ByteBase * ByteBase

HasBuffer == origin # "none"
HasDecoded == decoded.ver # 0
HasReader == reader.ver # 0

\* the positions in a caller's log where next() returned an item, and where it
\* returned None
SomeAt(log) == { i \in 1 .. Len(log) : log[i].op = "next" /\ log[i].item.tag = "Some" }
NoneAt(log) == { i \in 1 .. Len(log) : log[i].op = "next" /\ log[i].item.tag = "None" }

\* entry e of seen holds the fields of record e.idx of terms
SameFields(e, terms) ==
    /\ e.idx <= Len(terms)
    /\ e.doc_id = terms[e.idx].doc_id
    /\ e.field_mask = terms[e.idx].field_mask
    /\ e.frequency = terms[e.idx].frequency

----------------------------------------------------------------------------
(* C1: round trip.  Whenever a deserialize call (of any of the three       *)
(* modules) has run on the untouched output of serialize(block), it        *)
(* returned Ok with exactly the terms of block, in order.                  *)
C1_RoundTrip ==
    (origin = "encoded" /\ HasDecoded) => decoded.res = Ok(block)

(* C2: zero-copy parity.  On the untouched output of serialize(block),     *)
(* decode and BlockReader::new both succeed, nothing panics, every item    *)
(* the scan has read through doc_id(), field_mask() and frequency() holds  *)
(* the fields of the decoded record at the same position, and the scan     *)
(* ends after as many items as the decoded block has records.              *)
C2_ZeroCopyParity ==
    origin = "encoded" =>
        /\ ~aborted
        /\ HasDecoded => decoded.res.tag = "Ok"
        /\ HasReader => reader.tag = "Ok"
        /\ HasDecoded =>
              /\ \A i \in 1 .. Len(seen) : SameFields(seen[i], decoded.res.full_terms)
              /\ yielded <= Len(decoded.res.full_terms)
              /\ cur.tag = "None" => yielded = Len(decoded.res.full_terms)

\* a whole scan of a two-term block, every item read, next to its eager decode
C2_Witness ==
    /\ origin = "encoded" /\ decoded.ver = 1 /\ reader.ver = 1
    /\ cur.tag = "None" /\ yielded = 2 /\ Len(seen) = 2
    /\ seen[1].field_mask # seen[2].field_mask

(* C3: filter correctness.  On the untouched output of serialize(block),   *)
(* when every item the scan has produced so far was visited, the           *)
(* materialized matches are the records of the eagerly decoded block, up   *)
(* to that position, that pass the same mask test, in the same order.      *)
C3_FilterCorrect ==
    (origin = "encoded" /\ HasDecoded /\ decoded.res.tag = "Ok" /\ iter.live
        /\ Len(seen) = yielded /\ yielded <= Len(decoded.res.full_terms))
    => matched = FilterTerms(SubSeq(decoded.res.full_terms, 1, yielded), query)

\* a whole scan of a two-term block that kept one item and dropped the other
C3_Witness ==
    /\ origin = "encoded" /\ HasDecoded /\ decoded.res.tag = "Ok"
    /\ cur.tag = "None" /\ yielded = 2 /\ Len(seen) = 2
    /\ Len(matched) = 1 /\ matched[1] = decoded.res.full_terms[2]

(* C4: a buffer shorter than 4 bytes, whatever it holds, is rejected by    *)
(* every deserialize and every BlockReader::new with the header error, and *)
(* no byte was indexed before the length check (nothing panicked).         *)
C4_HeaderTooSmall ==
    (HasBuffer /\ Len(bytes) < HEADER_SIZE) =>
        /\ ~aborted
        /\ HasDecoded => decoded.res = Err(HEADER_ERR)
        /\ HasReader => (reader.tag = "Err" /\ reader.err = HEADER_ERR)

\* a 3-byte buffer with nonzero content, refused by both
C4_Witness ==
    /\ Len(bytes) = 3 /\ bytes[1] # 0 /\ bytes[3] # 0
    /\ HasDecoded /\ decoded.res = Err(HEADER_ERR)
    /\ HasReader /\ reader.err = HEADER_ERR

(* C5: every buffer of at least 4 bytes that is shorter than               *)
(* 4 + 32*count, count being its header, is rejected by deserialize and    *)
(* BlockReader::new with the data error; and so is serialize(block), for a *)
(* nonempty block, with trailing bytes removed (at least 4 bytes left).    *)
C5_PayloadTooSmall ==
    (HasBuffer /\ Len(bytes) >= HEADER_SIZE
        /\ (\/ Len(bytes) < HEADER_SIZE + TERM_SIZE * HeaderCount(bytes)
            \/ (origin = "truncated" /\ block # << >>)))
    => /\ ~aborted
       /\ HasDecoded => decoded.res = Err(DATA_ERR)
       /\ HasReader => (reader.tag = "Err" /\ reader.err = DATA_ERR)

(* C6: when 4 + 32*count does not fit usize, deserialize and               *)
(* BlockReader::new return the data error: they neither accept the buffer  *)
(* nor panic.                                                              *)
C6_CheckedSize ==
    (HasBuffer /\ Len(bytes) >= HEADER_SIZE
        /\ HEADER_SIZE + TERM_SIZE * HeaderCount(bytes) >= UsizeRange(usize_bytes))
    => /\ ~aborted
       /\ HasDecoded => decoded.res = Err(DATA_ERR)
       /\ HasReader => (reader.tag = "Err" /\ reader.err = DATA_ERR)

(* C7: a buffer of at least 4 + 32*N bytes, N being its header count, is   *)
(* accepted by deserialize and BlockReader::new with N records, the result *)
(* is that of its first 4 + 32*N bytes alone, and serialize(block)         *)
(* followed by any bytes decodes to block.                                 *)
C7_TrailingIgnored ==
    /\ (HasBuffer /\ Len(bytes) >= HEADER_SIZE
           /\ Len(bytes) >= HEADER_SIZE + TERM_SIZE * HeaderCount(bytes))
       => /\ ~aborted
          /\ HasReader => (reader.tag = "Ok" /\ reader.num_terms = HeaderCount(bytes))
          /\ HasDecoded =>
                /\ decoded.res.tag = "Ok"
                /\ Len(decoded.res.full_terms) = HeaderCount(bytes)
                /\ decoded.res =
                     deserialize(SubSeq(bytes, 1, HEADER_SIZE + TERM_SIZE * HeaderCount(bytes)),
                                 usize_bytes, overflow_checks)
    /\ (origin \in { "encoded", "extended" } /\ HasDecoded) => decoded.res = Ok(block)

(* C8: the buffer serialize returns for a block of N terms has exactly     *)
(* 4 + 32*N bytes.                                                         *)
C8_EncodedLength ==
    origin = "encoded" => Len(bytes) = HEADER_SIZE + TERM_SIZE * Len(block)

\* the encoding of a two-term block
C8_Witness == origin = "encoded" /\ Len(block) = 2 /\ Len(bytes) = 68

(* C9: the first 4 bytes of serialize(block) are the little-endian         *)
(* encoding of the number of terms of block, and the count                 *)
(* BlockReader::new and deserialize read back is that number.              *)
C9_HeaderCount ==
    origin = "encoded" =>
        /\ HeaderCount(bytes) = Len(block)
        /\ (HasReader /\ reader.tag = "Ok") => reader.num_terms = Len(block)
        /\ (HasDecoded /\ decoded.res.tag = "Ok") => Len(decoded.res.full_terms) = Len(block)

(* C10: wire layout.  In serialize(block), term i (from 0) occupies bytes  *)
(* 4+32i .. 4+32i+32: byte j of the little-endian doc_id at 4+32i+j        *)
(* (j < 8), byte j of the little-endian field_mask at 4+32i+8+j (j < 16),  *)
(* byte j of the little-endian frequency at 4+32i+24+j (j < 8).            *)
C10_WireLayout ==
    origin = "encoded" =>
        \A i \in 0 .. (Len(block) - 1) :
            LET base == HEADER_SIZE + TERM_SIZE * i
                term == block[i + 1]
            IN  /\ base + TERM_SIZE <= Len(bytes)
                /\ \A j \in 0 .. 7 : bytes[base + j + 1] = LEByte(term.doc_id, j)
                /\ \A j \in 0 .. 15 : bytes[base + 8 + j + 1] = LEByte(term.field_mask, j)
                /\ \A j \in 0 .. 7 : bytes[base + 24 + j + 1] = LEByte(term.frequency, j)

\* the encoding of a two-term block whose second term has a mask of several bytes
C10_Witness ==
    /\ origin = "encoded" /\ Len(block) = 2
    /\ block[2].field_mask >= U64_RANGE /\ block[2].doc_id >= ByteBase
    /\ \E j \in 8 .. 15 : bytes[HEADER_SIZE + TERM_SIZE + 8 + j + 1] # 0

(* C11: exact size.  On the untouched output of serialize(block), the      *)
(* reader's len() is the number of terms of block; the size_hint of an     *)
(* iterator is len() less the items produced so far, as lower and as upper *)
(* bound, and next() returns None exactly after len() items.               *)
C11_ExactSize ==
    (origin = "encoded" /\ reader.tag = "Ok") =>
        /\ BlockReader_len(reader) = Len(block)
        /\ iter.live =>
              LET it == [offset |-> iter.offset, remaining |-> iter.remaining]
                  left == Len(block) - yielded
              IN  /\ ~aborted
                  /\ yielded <= Len(block)
                  /\ (IF reader.ver = 1 THEN TermIterator_size_hint(it)
                       ELSE v2_TermIterator_size_hint(it)) = << left, left >>
                  /\ cur.tag = "None" => yielded = Len(block)
                  /\ cur.tag = "Some" => yielded >= 1

(* C12: once BlockReader::new has accepted the buffer, 4 + 32*num_terms   *)
(* is at most the length of the buffer, every item next() returns covers   *)
(* 32 bytes from offset 4 on that end inside those 4 + 32*num_terms bytes, *)
(* and neither next() (with the from_bytes_unchecked of the v2 reader) nor *)
(* an accessor or deserialize() of an item panics.                         *)
C12_ValidatedRegion ==
    reader.tag = "Ok" =>
        /\ HEADER_SIZE + TERM_SIZE * reader.num_terms <= Len(bytes)
        /\ cur.tag = "Some" =>
              /\ HEADER_SIZE <= cur.offset
              /\ cur.offset + TERM_SIZE <= HEADER_SIZE + TERM_SIZE * reader.num_terms
        /\ (iter.live /\ decoded.res.tag # "Panic") => ~aborted

(* C13: iterating never changes the reader.  For every caller whose       *)
(* BlockReader::new returned Ok: len() is the count new() declared,        *)
(* whatever iter() and next() calls were made since; and every traversal,  *)
(* the first and one started in the middle or at the end of another,       *)
(* produces its items from offset 4 on in steps of 32, with no panic in    *)
(* next() (one in an accessor of an item is not counted here), and ends    *)
(* after exactly len() items.                                              *)
C13_FreshTraversal ==
    \A t \in Callers :
        readers[t].tag = "Ok" =>
            /\ BlockReader_len(readers[t]) = readers[t].declared
            /\ readers[t].iter.live =>
                  LET log == readers[t].log
                  IN  /\ readers[t].panicked =>
                            (Len(log) >= 2 /\ log[Len(log) - 1].op = "next")
                      /\ \A i \in SomeAt(log) :
                            log[i].item.offset
                                = HEADER_SIZE + TERM_SIZE * Cardinality({ j \in SomeAt(log) : j < i })
                      /\ Cardinality(SomeAt(log)) <= BlockReader_len(readers[t])
                      /\ NoneAt(log) # { } =>
                            Cardinality(SomeAt(log)) = BlockReader_len(readers[t])

(* C14: callers on one buffer do not interfere.  Once a caller has opened  *)
(* a reader no step changes the buffer; and under every interleaving each  *)
(* caller got from BlockReader::new what new() returns on that buffer, and *)
(* has seen in its traversal exactly the items and field values that the   *)
(* same calls produce with no other caller present.                        *)
C14_NoInterference ==
    /\ [](\A t \in Callers :
            /\ readers[t].ver # 0 =>
                  LET res == NewOf(readers[t].ver)
                  IN  /\ readers[t].tag = res.tag /\ readers[t].err = res.err
                      /\ readers[t].num_terms = res.num_terms
            /\ readers[t].iter.live =>
                  readers[t].log
                      = AloneFrom(readers[t].ver, IterOf(readers[t].ver, readers[t]),
                                  Len(readers[t].log)))
    /\ [][(\E t \in Callers : readers[t].ver # 0) => bytes' = bytes]_vars

\* two readers of the two modules in the middle of their traversals of a
\* two-term buffer, one of them in its second traversal and an item ahead of
\* the other
C14_Witness ==
    /\ readers[1].ver = 1 /\ readers[2].ver = 2
    /\ readers[1].restarted /\ ~readers[2].restarted
    /\ readers[1].num_terms = 2
    /\ Len(readers[1].log) = 4 /\ readers[1].log[4].op = "read"
    /\ Len(readers[2].log) = 2 /\ readers[2].log[2].op = "read"
    /\ readers[1].log[4].read.term # readers[2].log[2].read.term

(* C19: an exhausted iterator stays exhausted.  Once next() has returned   *)
(* None, every later next() of that traversal returns None and leaves      *)
(* offset and remaining as they were; remaining stays within                *)
(* 0 .. num_terms and offset never exceeds 4 + 32*num_terms.               *)
C19_StaysExhausted ==
    /\ [](\A t \in Callers :
            readers[t].iter.live =>
                /\ readers[t].iter.remaining >= 0
                /\ readers[t].iter.remaining <= readers[t].num_terms
                /\ readers[t].iter.offset <= HEADER_SIZE + TERM_SIZE * readers[t].num_terms
                /\ \A i \in NoneAt(readers[t].log) :
                      \A j \in i .. Len(readers[t].log) : j \in NoneAt(readers[t].log))
    /\ [][\A t \in Callers :
            (readers[t].cur.tag = "None"
                /\ Len(readers'[t].log) = Len(readers[t].log) + 1)
            => /\ readers'[t].cur = None
               /\ readers'[t].iter = readers[t].iter
               /\ ~readers'[t].panicked
               /\ readers'[t].idle = readers[t].idle + 1]_vars

\* a reader of two terms whose next() was called twice more after the None
C19_Witness ==
    \E t \in Callers :
        /\ readers[t].num_terms = 2 /\ readers[t].idle = 2 /\ readers[t].restarted
        /\ readers[t].cur.tag = "None" /\ Cardinality(NoneAt(readers[t].log)) = 3

(* C15: empty block.  serialize of a block with no terms is the 4 bytes    *)
(* of a zero count; deserialize returns Ok with no terms on it,            *)
(* BlockReader::new returns Ok with len() = 0, and the first next() of an  *)
(* iteration returns None.                                                 *)
C15_EmptyBlock ==
    (origin = "encoded" /\ block = << >>) =>
        /\ bytes = << 0, 0, 0, 0 >>
        /\ ~aborted
        /\ HasDecoded => decoded.res = Ok(<< >>)
        /\ HasReader => (reader.tag = "Ok" /\ BlockReader_len(reader) = 0)
        /\ iter.live => (yielded = 0 /\ cur.tag \in { "-", "None" } /\ seen = << >>)

\* the empty block encoded, decoded, opened, and its iteration ended by the first next()
C15_Witness ==
    /\ origin = "encoded" /\ block = << >> /\ Len(bytes) = HEADER_SIZE
    /\ decoded.res = Ok(<< >>) /\ decoded.ver # 0
    /\ reader.tag = "Ok" /\ iter.live /\ cur.tag = "None" /\ yielded = 0

(* C16: on every buffer BlockReader::new accepted, eager deserialize       *)
(* returns Ok with len() records, the accessors and deserialize() of an    *)
(* item do not panic, and the records materialized by the scan are the     *)
(* records of the eager decode at the same positions (those that pass the  *)
(* mask test of the scan, in order).                                       *)
C16_MaterializeParity ==
    reader.tag = "Ok" =>
        /\ cur.tag = "Some" => ~aborted
        /\ HasDecoded =>
              /\ decoded.res.tag = "Ok"
              /\ Len(decoded.res.full_terms) = BlockReader_len(reader)
              /\ (iter.live /\ Len(seen) = yielded) =>
                    /\ yielded <= Len(decoded.res.full_terms)
                    /\ matched = FilterTerms(SubSeq(decoded.res.full_terms, 1, yielded), query)

(* C17: the three deserialize functions return the same outcome on every   *)
(* buffer (the same Err, or Ok with the same terms in the same order, or   *)
(* all three panic), and the three serialize functions return the same     *)
(* bytes for every block.                                                  *)
C17_Interchangeable ==
    /\ (origin = "encoded" /\ Untouched) =>
          (bytes = v2_serialize(block) /\ bytes = v3_serialize(block))
    /\ HasDecoded =>
          /\ decoded.res = deserialize(bytes, usize_bytes, overflow_checks)
          /\ decoded.res = v2_deserialize(bytes, usize_bytes, overflow_checks)
          /\ decoded.res = v3_deserialize(bytes, usize_bytes, overflow_checks)

\* the split_at decoder refusing the encoding of two terms cut short by 4 bytes
C17_Witness ==
    /\ origin = "truncated" /\ Len(block) = 2
    /\ Len(bytes) = 2 * TERM_SIZE
    /\ decoded.ver = 3 /\ decoded.res = Err(DATA_ERR)

(* C18: iterator invariant.  For an iterator made by iter(),               *)
(* offset = 4 + 32*(num_terms - remaining) and 0 <= remaining <= num_terms *)
(* in every state; a next() that produces an item returns the item at the  *)
(* offset held before the call, adds 32 to offset and takes 1 from         *)
(* remaining.                                                              *)
C18_IteratorInvariant ==
    /\ [](iter.live =>
            /\ iter.offset = HEADER_SIZE + TERM_SIZE * (reader.num_terms - iter.remaining)
            /\ 0 <= iter.remaining /\ iter.remaining <= reader.num_terms)
    /\ [][(iter.live /\ yielded' = yielded + 1) =>
            /\ cur'.tag = "Some" /\ cur'.offset = iter.offset
            /\ iter'.offset = iter.offset + TERM_SIZE
            /\ iter'.remaining = iter.remaining - 1]_vars

====
